---------------------------- MODULE Spec2Model ----------------------------
(***************************************************************************)
(* paperback-core v0: the main document's wire codec, the shard            *)
(* encryption under a BIP-39 mnemonic, the document checksum and id, and   *)
(* the backup / quorum pipeline around them.                               *)
(*                                                                         *)
(* Bytes are the naturals 0..255 and a byte string is a sequence of them.  *)
(* A Result is a record: [ok |-> TRUE, val, rest] or [ok |-> FALSE, err].  *)
(* TLC's integers are 32-bit signed, so the u32 values drawn here stay     *)
(* below 2^31.                                                             *)
(***************************************************************************)
EXTENDS Integers, Sequences, FiniteSets, TLC

VARIABLES
    main,      \* the MainDocument under test
    wire,      \* the byte buffer on paper: [kind, bytes, extra, cut]
    result,    \* what the last FromWire call returned: [op, input, out]
    ids,       \* the checksums and ids computed: [orig, decoded]
    shard,     \* the signed KeyShard under test
    enc,       \* its encryption as held on paper: [shard, codewords, ...]
    dec,       \* what EncryptedKeyShard::decrypt returned: [out, steps]
    backup,    \* the Backup: its secret, main document, dealer and keypair
    paper,     \* what was printed: the main document and the shards
    quorum,    \* the UntrustedQuorum being assembled
    outcome,   \* what validate() and recover_document() returned
    signing    \* a builder, the keypair it is signed with, the signed object

wireVars == <<main, wire, result, ids>>

shardVars == <<shard, enc, dec>>

backupVars == <<backup, paper, quorum, outcome>>

signVars == <<signing>>

vars == <<main, wire, result, ids, shard, enc, dec,
          backup, paper, quorum, outcome, signing>>

----------------------------------------------------------------------------
(* Bounds of the model. *)

\* the longest main-document ciphertext drawn
MaxCtLen == 2
\* the longest run of trailing bytes appended to an encoding
MaxExtraLen == 2

----------------------------------------------------------------------------
(* Results and byte-string helpers. *)

Ok(v, r) == [ok |-> TRUE, val |-> v, rest |-> r]

Err(e) == [ok |-> FALSE, err |-> e]

Drop(s, n) == SubSeq(s, n + 1, Len(s))

Take(s, n) == SubSeq(s, 1, n)

SeqsUpTo(S, n) == UNION {[1..k -> S] : k \in 0..n}

\* F of the value v, which is computed once however often F uses it: Rust's
\* `let x = v;`
Bind(v, F(_)) == F(v)

----------------------------------------------------------------------------
(* Program constants. *)

CHACHAPOLY_KEY_LENGTH == 32

CHACHAPOLY_NONCE_LENGTH == 12

ID_LENGTH == 8

\* type prefixes of wire::prefixes
PREFIX_ED25519_PUB == 237

PREFIX_ED25519_SIG == 239

PREFIX_CHACHA20POLY1305_NONCE == 204

PREFIX_CHACHA20POLY1305_CIPHERTEXT == 205

\* Ed25519 sizes (RFC 8032)
PUBLIC_KEY_LENGTH == 32

SIGNATURE_LENGTH == 64

\* unsigned_varint: the most bytes a u32 / u64 / usize varint takes
U32_LEN == 5

U64_LEN == 10

----------------------------------------------------------------------------
(* unsigned_varint: little-endian base 128, the high bit set on every byte *)
(* but the last.                                                           *)

RECURSIVE varuint_encode(_)
varuint_encode(n) ==
    IF n < 128 THEN <<n>>
    ELSE <<(n % 128) + 128>> \o varuint_encode(n \div 128)

\* unsigned_varint::decode: Insufficient when the input ends inside the
\* number, Overflow past maxLen bytes, NotMinimal on a trailing zero byte.
RECURSIVE varuint_decode_from(_, _, _, _)
varuint_decode_from(buf, i, n, maxLen) ==
    IF i >= Len(buf) THEN Err("DecodeError")
    ELSE LET b == buf[i + 1]
             k == b % 128
             m == n + k * (2 ^ (7 * i))
         IN  IF b < 128
             THEN IF b = 0 /\ i > 0 THEN Err("DecodeError")
                  ELSE Ok(m, Drop(buf, i + 1))
             ELSE IF i = maxLen - 1 THEN Err("DecodeError")
                  ELSE varuint_decode_from(buf, i + 1, m, maxLen)

\* nom_helpers::u32
nom_u32(input) == varuint_decode_from(input, 0, 0, U32_LEN)

\* nom_helpers::usize
nom_usize(input) == varuint_decode_from(input, 0, 0, U64_LEN)

\* nom_helpers::u64_tag: a varint that must equal the expected prefix
nom_u64_tag(tag, input) ==
    Bind(varuint_decode_from(input, 0, 0, U64_LEN), LAMBDA r :
    IF ~r.ok THEN r
    ELSE IF r.val # tag THEN Err("DecodeError")
    ELSE r)

\* nom::bytes::complete::take
nom_take(n, input) ==
    IF Len(input) < n THEN Err("DecodeError")
    ELSE Ok(Take(input, n), Drop(input, n))

----------------------------------------------------------------------------
(* MainDocumentMeta on the wire. *)

MainDocumentMeta_to_wire(meta) ==
    varuint_encode(meta.version) \o varuint_encode(meta.quorum_size)

\* the meta decoder handing back the input as it stood after the version
MainDocumentMeta_from_wire_partial_StaleRemain(input) ==
    Bind(nom_u32(input), LAMBDA v :
    IF ~v.ok THEN Err("DecodeError")
    ELSE Bind(nom_u32(v.rest), LAMBDA q :
    IF ~q.ok THEN Err("DecodeError")
    ELSE Ok([version |-> v.val, quorum_size |-> q.val], v.rest)))

MainDocumentMeta_from_wire_partial(input) ==
    Bind(nom_u32(input), LAMBDA v :
    IF ~v.ok THEN Err("DecodeError")
    ELSE Bind(nom_u32(v.rest), LAMBDA q :
    IF ~q.ok THEN Err("DecodeError")
    ELSE Ok([version |-> v.val, quorum_size |-> q.val], q.rest)))

----------------------------------------------------------------------------
(* MainDocumentBuilder on the wire. *)

\* the builder encoder leaving out the ciphertext's length
MainDocumentBuilder_to_wire_NoLength(b) ==
    MainDocumentMeta_to_wire(b.meta)
        \o varuint_encode(PREFIX_CHACHA20POLY1305_NONCE) \o b.nonce
        \o varuint_encode(PREFIX_CHACHA20POLY1305_CIPHERTEXT) \o b.ciphertext

MainDocumentBuilder_to_wire(b) ==
    MainDocumentMeta_to_wire(b.meta)
        \o varuint_encode(PREFIX_CHACHA20POLY1305_NONCE) \o b.nonce
        \o varuint_encode(PREFIX_CHACHA20POLY1305_CIPHERTEXT)
        \o varuint_encode(Len(b.ciphertext)) \o b.ciphertext

\* the inner parse closure: the nonce and the length-prefixed ciphertext
MainDocumentBuilder_parse(input) ==
    Bind(nom_u64_tag(PREFIX_CHACHA20POLY1305_NONCE, input), LAMBDA t1 :
    IF ~t1.ok THEN t1
    ELSE Bind(nom_take(CHACHAPOLY_NONCE_LENGTH, t1.rest), LAMBDA n :
    IF ~n.ok THEN n
    ELSE Bind(nom_u64_tag(PREFIX_CHACHA20POLY1305_CIPHERTEXT, n.rest), LAMBDA t2 :
    IF ~t2.ok THEN t2
    ELSE Bind(nom_usize(t2.rest), LAMBDA l :
    IF ~l.ok THEN l
    ELSE Bind(nom_take(l.val, l.rest), LAMBDA c :
    IF ~c.ok THEN c
    ELSE Ok([nonce |-> n.val, ciphertext |-> c.val], c.rest))))))

MainDocumentBuilder_from_wire_partial(input) ==
    Bind(MainDocumentMeta_from_wire_partial(input), LAMBDA m :
    IF ~m.ok THEN m
    ELSE Bind(MainDocumentBuilder_parse(m.rest), LAMBDA p :
    IF ~p.ok THEN Err("DecodeError")
    ELSE Ok([meta |-> m.val, nonce |-> p.val.nonce,
             ciphertext |-> p.val.ciphertext], p.rest)))

----------------------------------------------------------------------------
(* Identity on the wire: tag, public key, tag, signature. *)

Identity_to_wire(id) ==
    varuint_encode(PREFIX_ED25519_PUB) \o id.id_public_key
        \o varuint_encode(PREFIX_ED25519_SIG) \o id.id_signature

Identity_from_wire_partial(input) ==
    Bind(nom_u64_tag(PREFIX_ED25519_PUB, input), LAMBDA t1 :
    IF ~t1.ok THEN t1
    ELSE Bind(nom_take(PUBLIC_KEY_LENGTH, t1.rest), LAMBDA p :
    IF ~p.ok THEN p
    ELSE Bind(nom_u64_tag(PREFIX_ED25519_SIG, p.rest), LAMBDA t2 :
    IF ~t2.ok THEN t2
    ELSE Bind(nom_take(SIGNATURE_LENGTH, t2.rest), LAMBDA s :
    IF ~s.ok THEN s
    ELSE Ok([id_public_key |-> p.val, id_signature |-> s.val], s.rest)))))

----------------------------------------------------------------------------
(* MainDocument on the wire. *)

MainDocument_to_wire(m) ==
    MainDocumentBuilder_to_wire(m.inner) \o Identity_to_wire(m.identity)

\* the document decoder without its version check
MainDocument_from_wire_partial_NoVersionCheck(input) ==
    Bind(MainDocumentBuilder_from_wire_partial(input), LAMBDA b :
    IF ~b.ok THEN b
    ELSE Bind(Identity_from_wire_partial(b.rest), LAMBDA i :
    IF ~i.ok THEN Err("DecodeError")
    ELSE Ok([inner |-> b.val, identity |-> i.val], i.rest)))

MainDocument_from_wire_partial(input) ==
    Bind(MainDocumentBuilder_from_wire_partial(input), LAMBDA b :
    IF ~b.ok THEN b
    ELSE Bind(Identity_from_wire_partial(b.rest), LAMBDA i :
    IF ~i.ok THEN Err("DecodeError")
    ELSE IF b.val.meta.version # 0 THEN Err("DecodeError")
    ELSE Ok([inner |-> b.val, identity |-> i.val], i.rest)))

\* FromWire::from_wire: the partial decode must consume the whole input
from_wire(partial) ==
    Bind(partial, LAMBDA r :
    IF ~r.ok THEN r
    ELSE IF r.rest # <<>> THEN Err("DecodeError")
    ELSE Ok(r.val, <<>>))

MainDocumentMeta_from_wire(input) ==
    from_wire(MainDocumentMeta_from_wire_partial(input))

MainDocumentBuilder_from_wire(input) ==
    from_wire(MainDocumentBuilder_from_wire_partial(input))

MainDocument_from_wire(input) ==
    from_wire(MainDocument_from_wire_partial(input))

----------------------------------------------------------------------------
(* Checksum and document id. *)

\* multihash::Code::Blake2b256 and its digest size
BLAKE2B_256_CODE == 45600

BLAKE2B_256_SIZE == 32

\* stand-in for the BLAKE2b-256 compression: a position-weighted sum of the
\* input bytes lo..hi, taken by halves
RECURSIVE blake2b_sum(_, _, _)
blake2b_sum(bytes, lo, hi) ==
    IF lo > hi THEN 0
    ELSE IF lo = hi THEN ((bytes[lo] + 1) * (((lo * lo + 7 * lo) % 251) + 1)) % 65521
    ELSE LET mid == (lo + hi) \div 2
         IN  (blake2b_sum(bytes, lo, mid) + blake2b_sum(bytes, mid + 1, hi)) % 65521

blake2b256(bytes) ==
    Bind((blake2b_sum(bytes, 1, Len(bytes)) + 131 * Len(bytes) + 7) % 65521,
         LAMBDA h :
    [j \in 1..BLAKE2B_256_SIZE |-> ((h \div j) + h * j + j) % 256])

\* CHECKSUM_ALGORITHM.digest(bytes): a Multihash (code, size, digest)
Multihash_digest(bytes) ==
    [code |-> BLAKE2B_256_CODE, size |-> BLAKE2B_256_SIZE,
     digest |-> blake2b256(bytes)]

Multihash_to_bytes(mh) ==
    varuint_encode(mh.code) \o varuint_encode(mh.size) \o mh.digest

ZBASE32_ALPHABET ==
    <<"y", "b", "n", "d", "r", "f", "g", "8", "e", "j", "k", "m", "c", "p",
      "q", "x", "o", "t", "1", "u", "w", "i", "s", "z", "a", "3", "4", "5",
      "h", "7", "6", "9">>

\* bit p (0-based, most significant first) of a byte string, 0 past its end
BitAt(bytes, p) ==
    IF p >= 8 * Len(bytes) THEN 0
    ELSE (bytes[(p \div 8) + 1] \div (2 ^ (7 - (p % 8)))) % 2

\* zbase32::encode_full_bytes: 5 bits per character, the last group padded
zbase32_encode_full_bytes(bytes) ==
    LET n == (8 * Len(bytes) + 4) \div 5
        quintet(g) == 16 * BitAt(bytes, 5 * g) + 8 * BitAt(bytes, 5 * g + 1)
                        + 4 * BitAt(bytes, 5 * g + 2)
                        + 2 * BitAt(bytes, 5 * g + 3) + BitAt(bytes, 5 * g + 4)
    IN  [g \in 1..n |-> ZBASE32_ALPHABET[quintet(g - 1) + 1]]

MainDocument_checksum(m) == Multihash_digest(MainDocument_to_wire(m))

\* the id taken from the front of the encoded checksum
MainDocument_id_Prefix(m) ==
    LET encoded_chksum ==
            zbase32_encode_full_bytes(Multihash_to_bytes(MainDocument_checksum(m)))
    IN  SubSeq(encoded_chksum, 1, ID_LENGTH)

\* the suffix of the encoded checksum is the id
MainDocument_id(m) ==
    LET encoded_chksum ==
            zbase32_encode_full_bytes(Multihash_to_bytes(MainDocument_checksum(m)))
    IN  SubSeq(encoded_chksum, Len(encoded_chksum) - ID_LENGTH + 1,
               Len(encoded_chksum))

\* reads the other field of the meta
MainDocument_quorum_size_Version(m) == m.inner.meta.version

MainDocument_quorum_size(m) == m.inner.meta.quorum_size

----------------------------------------------------------------------------
(* The documents and buffers the codec is exercised on. *)

Versions == {0, 1, 300}

QuorumSizes == {0, 1, 2, 2147483647}

Nonces == {[i \in 1..CHACHAPOLY_NONCE_LENGTH |-> (i * 41 + 163) % 256]}

CtBytes == {0, 205}

Ciphertexts == SeqsUpTo(CtBytes, MaxCtLen)

ExtraBytes == {0, 237}

Extras == SeqsUpTo(ExtraBytes, MaxExtraLen) \ {<<>>}

\* quickcheck's Identity::arbitrary: some key and some signature by it
Identities ==
    {[id_public_key |-> [i \in 1..PUBLIC_KEY_LENGTH |-> (i * s + 3) % 256],
      id_signature |-> [i \in 1..SIGNATURE_LENGTH |-> (i * 7 + s) % 256]]
        : s \in {5, 239}}

MainDocuments ==
    {[inner |-> [meta |-> [version |-> v, quorum_size |-> q],
                 nonce |-> n, ciphertext |-> c],
      identity |-> id]
        : v \in Versions, q \in QuorumSizes, n \in Nonces,
          c \in Ciphertexts, id \in Identities}

NoResult == [op |-> "none", input |-> <<>>, out |-> Err("none")]

NoIds == [done |-> FALSE]

NoShard == [inner |-> "none"]

NoEnc == [made |-> FALSE]

NoDec == [done |-> FALSE]

NoSigning == [kind |-> "none"]

NoBackup == [made |-> FALSE]

NoPaper == [main |-> <<>>, shards |-> <<>>]

None == [some |-> FALSE]

Some(v) == [some |-> TRUE, val |-> v]

\* UntrustedQuorum::new(): no main document and no shards
UntrustedQuorum_new == [main_document |-> None, shards |-> <<>>]

\* what has been done with the quorum so far: which printed shards were
\* pushed, which steps returned an error, what validate() and
\* recover_document() returned
NoOutcome ==
    [started |-> FALSE, pushed |-> {}, failed |-> {},
     validated |-> [done |-> FALSE], recovered |-> [done |-> FALSE]]

IsStrictPrefix(p, w) == Len(p) < Len(w) /\ p = Take(w, Len(p))

----------------------------------------------------------------------------
(* The codec's state machine: encode an entity, let the bytes be extended  *)
(* or cut short, decode them, derive the ids.                              *)

Init ==
    /\ main \in MainDocuments
    /\ wire = [kind |-> "none", bytes |-> <<>>, extra |-> <<>>, cut |-> FALSE]
    /\ result = NoResult
    /\ ids = NoIds
    /\ shard = NoShard /\ enc = NoEnc /\ dec = NoDec
    /\ backup = NoBackup /\ paper = NoPaper
    /\ quorum = UntrustedQuorum_new /\ outcome = NoOutcome
    /\ signing = NoSigning

Written(kind, bytes) ==
    [kind |-> kind, bytes |-> bytes, extra |-> <<>>, cut |-> FALSE]

ToWireMeta ==
    /\ wire.kind = "none"
    /\ wire' = Written("meta", MainDocumentMeta_to_wire(main.inner.meta))
    /\ UNCHANGED <<main, result, ids, shardVars, backupVars, signVars>>

ToWireBuilder ==
    /\ wire.kind = "none"
    /\ wire' = Written("builder", MainDocumentBuilder_to_wire(main.inner))
    /\ UNCHANGED <<main, result, ids, shardVars, backupVars, signVars>>

ToWireMain ==
    /\ wire.kind = "none"
    /\ wire' = Written("main", MainDocument_to_wire(main))
    /\ UNCHANGED <<main, result, ids, shardVars, backupVars, signVars>>

\* bytes that follow the encoding in the caller's buffer
AppendTrailing ==
    /\ wire.kind # "none" /\ wire.extra = <<>> /\ ~wire.cut
    /\ result.op = "none"
    /\ \E s \in Extras :
          wire' = [wire EXCEPT !.bytes = @ \o s, !.extra = s]
    /\ UNCHANGED <<main, result, ids, shardVars, backupVars, signVars>>

\* a buffer that ends before the encoding does
Truncate ==
    /\ wire.kind # "none" /\ wire.extra = <<>> /\ ~wire.cut
    /\ result.op = "none"
    /\ \E n \in 0..(Len(wire.bytes) - 1) :
          wire' = [wire EXCEPT !.bytes = Take(@, n), !.cut = TRUE]
    /\ UNCHANGED <<main, result, ids, shardVars, backupVars, signVars>>

Decoded(op, out) == [op |-> op, input |-> wire.bytes, out |-> out]

FromWireMeta ==
    /\ wire.kind = "meta" /\ result.op = "none"
    /\ result' = Decoded("MainDocumentMeta::from_wire",
                         MainDocumentMeta_from_wire(wire.bytes))
    /\ UNCHANGED <<main, wire, ids, shardVars, backupVars, signVars>>

FromWirePartialMeta ==
    /\ wire.kind # "none" /\ result.op = "none"
    /\ result' = Decoded("MainDocumentMeta::from_wire_partial",
                         MainDocumentMeta_from_wire_partial(wire.bytes))
    /\ UNCHANGED <<main, wire, ids, shardVars, backupVars, signVars>>

FromWireBuilder ==
    /\ wire.kind = "builder" /\ result.op = "none"
    /\ result' = Decoded("MainDocumentBuilder::from_wire",
                         MainDocumentBuilder_from_wire(wire.bytes))
    /\ UNCHANGED <<main, wire, ids, shardVars, backupVars, signVars>>

FromWirePartialBuilder ==
    /\ wire.kind \in {"builder", "main"} /\ result.op = "none"
    /\ result' = Decoded("MainDocumentBuilder::from_wire_partial",
                         MainDocumentBuilder_from_wire_partial(wire.bytes))
    /\ UNCHANGED <<main, wire, ids, shardVars, backupVars, signVars>>

FromWireMain ==
    /\ wire.kind = "main" /\ result.op = "none"
    /\ result' = Decoded("MainDocument::from_wire",
                         MainDocument_from_wire(wire.bytes))
    /\ UNCHANGED <<main, wire, ids, shardVars, backupVars, signVars>>

FromWirePartialMain ==
    /\ wire.kind = "main" /\ result.op = "none"
    /\ result' = Decoded("MainDocument::from_wire_partial",
                         MainDocument_from_wire_partial(wire.bytes))
    /\ UNCHANGED <<main, wire, ids, shardVars, backupVars, signVars>>

\* checksum() and id() of the original and of the decoded document
ChecksumAndId ==
    /\ result.op \in {"MainDocument::from_wire", "MainDocument::from_wire_partial"}
    /\ result.out.ok
    /\ ~ids.done
    /\ ids' = [done |-> TRUE,
               orig_checksum |-> MainDocument_checksum(main),
               orig_id |-> MainDocument_id(main),
               decoded_checksum |-> MainDocument_checksum(result.out.val),
               decoded_id |-> MainDocument_id(result.out.val)]
    /\ UNCHANGED <<main, wire, result, shardVars, backupVars, signVars>>

Next ==
    \/ ToWireMeta \/ ToWireBuilder \/ ToWireMain
    \/ AppendTrailing \/ Truncate
    \/ FromWireMeta \/ FromWirePartialMeta
    \/ FromWireBuilder \/ FromWirePartialBuilder
    \/ FromWireMain \/ FromWirePartialMain
    \/ ChecksumAndId

Spec == Init /\ [][Next]_vars

----------------------------------------------------------------------------
(* Properties of the wire codec, checked under Spec. *)

StartsWith(input, w) == Len(input) >= Len(w) /\ Take(input, Len(w)) = w

MainOps == {"MainDocument::from_wire", "MainDocument::from_wire_partial"}

\* C1: a version-0 MainDocument, its builder and its meta each decode from
\* their own encoding to an equal value, whatever the quorum size, nonce,
\* ciphertext (the empty one included) and identity.
C1_WireRoundTrip ==
    main.inner.meta.version = 0 =>
        /\ (result.op = "MainDocument::from_wire"
                /\ result.input = MainDocument_to_wire(main))
             => result.out = Ok(main, <<>>)
        /\ (result.op = "MainDocumentBuilder::from_wire"
                /\ result.input = MainDocumentBuilder_to_wire(main.inner))
             => result.out = Ok(main.inner, <<>>)
        /\ (result.op = "MainDocumentMeta::from_wire"
                /\ result.input = MainDocumentMeta_to_wire(main.inner.meta))
             => result.out = Ok(main.inner.meta, <<>>)

C1_Witness ==
    /\ result.op = "MainDocument::from_wire"
    /\ result.input = MainDocument_to_wire(main)
    /\ main.inner.meta.version = 0
    /\ main.inner.meta.quorum_size = 2147483647
    /\ main.inner.ciphertext = <<>>
    /\ result.out.ok /\ result.out.val = main

\* C4: the full decode of a well-formed encoding whose version is not 0 is an
\* error, for MainDocumentMeta, MainDocumentBuilder and MainDocument alike.
C4_VersionGate ==
    main.inner.meta.version # 0 =>
        /\ (result.op = "MainDocument::from_wire"
                /\ result.input = MainDocument_to_wire(main))
             => ~result.out.ok
        /\ (result.op = "MainDocumentBuilder::from_wire"
                /\ result.input = MainDocumentBuilder_to_wire(main.inner))
             => ~result.out.ok
        /\ (result.op = "MainDocumentMeta::from_wire"
                /\ result.input = MainDocumentMeta_to_wire(main.inner.meta))
             => ~result.out.ok

\* C8: a partial decode of an encoding followed by any bytes returns the
\* value and exactly those bytes; a partial decode of a strict prefix of an
\* encoding is an error.
C8_PartialDecode ==
    main.inner.meta.version = 0 =>
        LET wm == MainDocument_to_wire(main)
            wb == MainDocumentBuilder_to_wire(main.inner)
            wt == MainDocumentMeta_to_wire(main.inner.meta)
        IN  /\ result.op = "MainDocument::from_wire_partial" =>
                /\ StartsWith(result.input, wm)
                     => result.out = Ok(main, Drop(result.input, Len(wm)))
                /\ IsStrictPrefix(result.input, wm) => ~result.out.ok
            /\ result.op = "MainDocumentBuilder::from_wire_partial" =>
                /\ StartsWith(result.input, wb)
                     => result.out = Ok(main.inner, Drop(result.input, Len(wb)))
                /\ IsStrictPrefix(result.input, wb) => ~result.out.ok
            /\ result.op = "MainDocumentMeta::from_wire_partial" =>
                /\ StartsWith(result.input, wt)
                     => result.out = Ok(main.inner.meta, Drop(result.input, Len(wt)))
                /\ IsStrictPrefix(result.input, wt) => ~result.out.ok

\* trailing bytes came back untouched from a document's partial decode
C8_Witness ==
    /\ result.op = "MainDocument::from_wire_partial"
    /\ wire.extra = <<237, 0>>
    /\ result.out.ok /\ result.out.rest = <<237, 0>>

\* the declared ciphertext length exceeds what is left of the buffer
C8_WitnessTruncated ==
    /\ result.op = "MainDocumentBuilder::from_wire_partial"
    /\ wire.kind = "builder" /\ wire.cut
    /\ Len(main.inner.ciphertext) = 2
    /\ Len(result.input) = Len(MainDocumentBuilder_to_wire(main.inner)) - 1
    /\ ~result.out.ok

\* C9 as stated: a decoded MainDocument has version 0 and quorum size >= 2.
C9_DecodedMetaInvariant ==
    (result.op \in MainOps /\ result.out.ok) =>
        /\ result.out.val.inner.meta.version = 0
        /\ MainDocument_quorum_size(result.out.val) >= 2

\* C9 amended: a decoded MainDocument has version 0, and its quorum size is
\* the encoded one, which decoding does not bound from below.
C9_DecodedVersionZero ==
    /\ (result.op \in MainOps /\ result.out.ok)
         => result.out.val.inner.meta.version = 0
    /\ (result.op \in MainOps /\ main.inner.meta.version = 0
            /\ result.input = MainDocument_to_wire(main))
         => /\ result.out.ok
            /\ MainDocument_quorum_size(result.out.val)
                 = main.inner.meta.quorum_size

C9_Witness ==
    /\ result.op = "MainDocument::from_wire"
    /\ result.out.ok
    /\ MainDocument_quorum_size(result.out.val) \in {0, 1}

\* C10: id() is the last 8 characters of the z-base-32 text of the bytes of
\* checksum(), the BLAKE2b-256 multihash of to_wire(); a version-0 document
\* decoded from its own encoding has the same checksum and the same id.
C10_IdStability ==
    ids.done =>
        LET chk == Multihash_digest(MainDocument_to_wire(main))
            z == zbase32_encode_full_bytes(Multihash_to_bytes(chk))
        IN  /\ ids.orig_checksum = chk
            /\ Len(ids.orig_id) = 8
            /\ \A i \in 1..8 : ids.orig_id[i] = z[Len(z) - 8 + i]
            /\ (result.op = "MainDocument::from_wire"
                    /\ result.input = MainDocument_to_wire(main))
                 => /\ ids.decoded_checksum = ids.orig_checksum
                    /\ ids.decoded_id = ids.orig_id

C10_Witness ==
    /\ ids.done
    /\ result.op = "MainDocument::from_wire"
    /\ result.input = MainDocument_to_wire(main)
    /\ Len(ids.decoded_id) = 8
    /\ ids.decoded_id = ids.orig_id

----------------------------------------------------------------------------
(* Ed25519, stood in for by a keyed digest of the message: a signature is  *)
(* 64 bytes fixed by the public key and the message, and verification      *)
(* recomputes it.                                                          *)

RECURSIVE byte_sum(_, _, _)
byte_sum(bytes, lo, hi) ==
    IF lo > hi THEN 0
    ELSE IF lo = hi THEN bytes[lo]
    ELSE LET mid == (lo + hi) \div 2
         IN  (byte_sum(bytes, lo, mid) + byte_sum(bytes, mid + 1, hi)) % 256

Keypair(seed) ==
    [secret |-> [i \in 1..32 |-> (seed * i + 11) % 256],
     public |-> [i \in 1..PUBLIC_KEY_LENGTH |-> (seed * (i + 3) + 5 * i) % 256]]

ed25519_signature(public, bytes) ==
    Bind(blake2b_sum(bytes, 1, Len(bytes)) + Len(bytes), LAMBDA h :
    [i \in 1..SIGNATURE_LENGTH |->
        (h * i + public[((i - 1) % PUBLIC_KEY_LENGTH) + 1] + i) % 256])

Keypair_sign(id_keypair, bytes) == ed25519_signature(id_keypair.public, bytes)

PublicKey_verify(public, bytes, signature) ==
    signature = ed25519_signature(public, bytes)

----------------------------------------------------------------------------
(* Shard, KeyShardBuilder and KeyShard on the wire. *)

Shard_to_wire(sh) ==
    varuint_encode(sh.x) \o varuint_encode(Len(sh.ys)) \o sh.ys

Shard_from_wire_partial(input) ==
    Bind(nom_u32(input), LAMBDA x :
    IF ~x.ok THEN x
    ELSE Bind(nom_usize(x.rest), LAMBDA l :
    IF ~l.ok THEN l
    ELSE Bind(nom_take(l.val, l.rest), LAMBDA y :
    IF ~y.ok THEN y
    ELSE Ok([x |-> x.val, ys |-> y.val], y.rest))))

Multihash_from_wire_partial(input) ==
    Bind(nom_u64_tag(BLAKE2B_256_CODE, input), LAMBDA c :
    IF ~c.ok THEN c
    ELSE Bind(nom_usize(c.rest), LAMBDA l :
    IF ~l.ok THEN l
    ELSE Bind(nom_take(l.val, l.rest), LAMBDA d :
    IF ~d.ok THEN d
    ELSE Ok([code |-> c.val, size |-> l.val, digest |-> d.val], d.rest))))

KeyShardBuilder_to_wire(b) ==
    varuint_encode(b.version) \o Multihash_to_bytes(b.doc_chksum)
        \o Shard_to_wire(b.shard)

KeyShardBuilder_from_wire_partial(input) ==
    Bind(nom_u32(input), LAMBDA v :
    IF ~v.ok THEN v
    ELSE Bind(Multihash_from_wire_partial(v.rest), LAMBDA c :
    IF ~c.ok THEN c
    ELSE Bind(Shard_from_wire_partial(c.rest), LAMBDA sh :
    IF ~sh.ok THEN sh
    ELSE Ok([version |-> v.val, doc_chksum |-> c.val, shard |-> sh.val],
            sh.rest))))

KeyShard_to_wire(ks) ==
    KeyShardBuilder_to_wire(ks.inner) \o Identity_to_wire(ks.identity)

KeyShard_from_wire_partial(input) ==
    Bind(KeyShardBuilder_from_wire_partial(input), LAMBDA b :
    IF ~b.ok THEN b
    ELSE Bind(Identity_from_wire_partial(b.rest), LAMBDA i :
    IF ~i.ok THEN i
    ELSE IF b.val.version # 0 THEN Err("DecodeError")
    ELSE Ok([inner |-> b.val, identity |-> i.val], i.rest)))

KeyShard_from_wire(input) == from_wire(KeyShard_from_wire_partial(input))

----------------------------------------------------------------------------
(* Signing. *)

\* the signable bytes without the tag before the public key
KeyShardBuilder_signable_bytes_NoPrefix(b, id_public_key) ==
    KeyShardBuilder_to_wire(b) \o id_public_key

KeyShardBuilder_signable_bytes(b, id_public_key) ==
    KeyShardBuilder_to_wire(b) \o varuint_encode(PREFIX_ED25519_PUB)
        \o id_public_key

KeyShardBuilder_sign(b, id_keypair) ==
    LET bytes == KeyShardBuilder_signable_bytes(b, id_keypair.public)
    IN  [inner |-> b,
         identity |-> [id_public_key |-> id_keypair.public,
                       id_signature |-> Keypair_sign(id_keypair, bytes)]]

MainDocumentBuilder_signable_bytes(b, id_public_key) ==
    MainDocumentBuilder_to_wire(b) \o varuint_encode(PREFIX_ED25519_PUB)
        \o id_public_key

\* signs the builder's wire form alone, without the public key after it
MainDocumentBuilder_sign_NoPublicKey(b, id_keypair) ==
    LET bytes == MainDocumentBuilder_to_wire(b)
    IN  [inner |-> b,
         identity |-> [id_public_key |-> id_keypair.public,
                       id_signature |-> Keypair_sign(id_keypair, bytes)]]

MainDocumentBuilder_sign(b, id_keypair) ==
    LET bytes == MainDocumentBuilder_signable_bytes(b, id_keypair.public)
    IN  [inner |-> b,
         identity |-> [id_public_key |-> id_keypair.public,
                       id_signature |-> Keypair_sign(id_keypair, bytes)]]

----------------------------------------------------------------------------
(* ChaCha20-Poly1305, stood in for by a keyed byte stream XORed onto the   *)
(* plaintext and a 16-byte keyed tag over the ciphertext body.  The tag's  *)
(* first byte carries the plain byte sum of the body, so that no change of *)
(* a single body byte keeps the tag.                                       *)

TAG_LENGTH == 16

XorBit(a, b, w) == (((a \div w) + (b \div w)) % 2) * w

\* the bitwise exclusive or of two bytes
Xor(a, b) ==
    XorBit(a, b, 1) + XorBit(a, b, 2) + XorBit(a, b, 4) + XorBit(a, b, 8)
        + XorBit(a, b, 16) + XorBit(a, b, 32) + XorBit(a, b, 64)
        + XorBit(a, b, 128)

chacha20_apply(key, nonce, data) ==
    Bind(blake2b_sum(key, 1, Len(key)), LAMBDA k :
    Bind(blake2b_sum(nonce, 1, Len(nonce)), LAMBDA n :
    [i \in 1..Len(data) |-> Xor(data[i], (k * (i + 1) + n + 13 * i) % 256)]))

poly1305_tag(key, nonce, aad, body) ==
    Bind(blake2b_sum(key, 1, Len(key)), LAMBDA k :
    Bind(blake2b_sum(nonce, 1, Len(nonce)), LAMBDA n :
    Bind(blake2b_sum(aad, 1, Len(aad)) + Len(aad), LAMBDA a :
    Bind(byte_sum(body, 1, Len(body)), LAMBDA s1 :
    Bind(blake2b_sum(body, 1, Len(body)), LAMBDA s2 :
    [j \in 1..TAG_LENGTH |->
        IF j = 1 THEN (s1 + k + 3 * n + a + Len(body)) % 256
        ELSE (s2 * j + k + n * j + a * (j + 1) + s1) % 256])))))

\* Aead::encrypt with a Payload { msg, aad }
aead_encrypt(key, nonce, aad, plaintext) ==
    Bind(chacha20_apply(key, nonce, plaintext), LAMBDA body :
    body \o poly1305_tag(key, nonce, aad, body))

\* Aead::decrypt with a Payload { msg, aad }
aead_decrypt(key, nonce, aad, ciphertext) ==
    IF Len(ciphertext) < TAG_LENGTH THEN Err("AeadDecryption")
    ELSE Bind(Take(ciphertext, Len(ciphertext) - TAG_LENGTH), LAMBDA body :
         Bind(Drop(ciphertext, Len(ciphertext) - TAG_LENGTH), LAMBDA tag :
         IF tag # poly1305_tag(key, nonce, aad, body)
         THEN Err("AeadDecryption")
         ELSE Ok(chacha20_apply(key, nonce, body), <<>>)))

----------------------------------------------------------------------------
(* BIP-39.  A word of the English list is its index 0..2047; a codeword is *)
(* [word, upper]: the word it spells once lowercased (NOT_A_WORD when it   *)
(* spells none) and whether it is written with capitals.                   *)

CODEWORD_COUNT == 24

WORD_BITS == 11

WORDLIST_SIZE == 2048

NOT_A_WORD == 2048

\* stand-in for the first byte of SHA-256(entropy)
bip39_checksum(entropy) ==
    (blake2b_sum(entropy, 1, Len(entropy)) + 89) % 256

\* the phrase of an entropy: its bits, then the first Len/4 checksum bits,
\* cut into 11-bit word indices
Mnemonic_from_entropy(entropy) ==
    Bind(entropy \o <<bip39_checksum(entropy)>>, LAMBDA bytes :
    LET count == (8 * Len(entropy) + (Len(entropy) \div 4)) \div WORD_BITS
        index(g) ==
            LET RECURSIVE bitsum(_)
                bitsum(t) ==
                    IF t = WORD_BITS THEN 0
                    ELSE BitAt(bytes, WORD_BITS * g + t) * (2 ^ (WORD_BITS - 1 - t))
                           + bitsum(t + 1)
            IN  bitsum(0)
    IN  [g \in 1..count |-> [word |-> index(g - 1), upper |-> FALSE]])

\* str::to_lowercase on the joined phrase
to_lowercase(phrase) ==
    [i \in 1..Len(phrase) |-> [phrase[i] EXCEPT !.upper = FALSE]]

\* bit p (0-based) of the bits the words of a phrase spell
WordBitAt(phrase, p) ==
    (phrase[(p \div WORD_BITS) + 1].word \div (2 ^ (WORD_BITS - 1 - (p % WORD_BITS)))) % 2

\* Mnemonic::from_phrase: every word must be in the (lowercase) list, the
\* word count must be that of a mnemonic, and the checksum bits must match
Mnemonic_from_phrase(phrase) ==
    IF \E i \in 1..Len(phrase) :
          phrase[i].upper \/ phrase[i].word \notin 0..(WORDLIST_SIZE - 1)
    THEN Err("InvalidWord")
    ELSE IF Len(phrase) \notin {12, 15, 18, 21, 24}
    THEN Err("InvalidWordLength")
    ELSE LET nbits == WORD_BITS * Len(phrase)
             elen == (nbits - (nbits \div 33)) \div 8
             byte(j) ==
                LET RECURSIVE bitsum(_)
                    bitsum(t) ==
                        IF t = 8 THEN 0
                        ELSE WordBitAt(phrase, 8 * j + t) * (2 ^ (7 - t))
                               + bitsum(t + 1)
                IN  bitsum(0)
             csbits == nbits \div 33
         IN  Bind([j \in 1..elen |-> byte(j - 1)], LAMBDA entropy :
             Bind(bip39_checksum(entropy), LAMBDA cs :
             IF \E t \in 0..(csbits - 1) :
                   WordBitAt(phrase, 8 * elen + t) # (cs \div (2 ^ (7 - t))) % 2
             THEN Err("InvalidChecksum")
             ELSE Ok(entropy, <<>>)))

----------------------------------------------------------------------------
(* Shard encryption. *)

\* KeyShard::encrypt, with the key and the nonce it drew
KeyShard_encrypt(ks, shard_key, shard_nonce) ==
    LET wire_shard == KeyShard_to_wire(ks)
        ciphertext == aead_encrypt(shard_key, shard_nonce, <<>>, wire_shard)
        codewords == Mnemonic_from_entropy(shard_key)
    IN  [shard |-> [nonce |-> shard_nonce, ciphertext |-> ciphertext],
         codewords |-> codewords]

\* decrypt running the AEAD before it looks at the codewords
EncryptedKeyShard_decrypt_AeadFirst(e, codewords) ==
    Bind(Mnemonic_from_phrase(to_lowercase(codewords)), LAMBDA mnemonic :
    Bind(aead_decrypt(IF mnemonic.ok THEN mnemonic.val
                      ELSE [i \in 1..CHACHAPOLY_KEY_LENGTH |-> 0],
                      e.nonce, <<>>, e.ciphertext), LAMBDA wire_shard :
    IF ~wire_shard.ok
    THEN [out |-> Err("AeadDecryption"), steps |-> <<"aead_decrypt">>]
    ELSE IF ~mnemonic.ok
    THEN [out |-> Err("BadMnemonic"),
          steps |-> <<"aead_decrypt", "from_phrase">>]
    ELSE [out |-> KeyShard_from_wire(wire_shard.val),
          steps |-> <<"aead_decrypt", "from_phrase", "from_wire">>]))

\* decrypt decoding whatever the AEAD leaves, its verdict ignored
EncryptedKeyShard_decrypt_Unauthenticated(e, codewords) ==
    Bind(Mnemonic_from_phrase(to_lowercase(codewords)), LAMBDA mnemonic :
    IF ~mnemonic.ok
    THEN [out |-> Err("BadMnemonic"), steps |-> <<"from_phrase">>]
    ELSE LET n == Len(e.ciphertext) - TAG_LENGTH
             body == IF n >= 0 THEN Take(e.ciphertext, n) ELSE <<>>
         IN  [out |-> KeyShard_from_wire(
                          chacha20_apply(mnemonic.val, e.nonce, body)),
              steps |-> <<"from_phrase", "aead_decrypt", "from_wire">>])

\* decrypt using the shard's nonce reversed
EncryptedKeyShard_decrypt_WrongNonce(e, codewords) ==
    Bind(Mnemonic_from_phrase(to_lowercase(codewords)), LAMBDA mnemonic :
    IF ~mnemonic.ok
    THEN [out |-> Err("BadMnemonic"), steps |-> <<"from_phrase">>]
    ELSE Bind(aead_decrypt(mnemonic.val,
                           [i \in 1..Len(e.nonce) |->
                               e.nonce[Len(e.nonce) + 1 - i]],
                           <<>>, e.ciphertext), LAMBDA wire_shard :
    IF ~wire_shard.ok
    THEN [out |-> Err("AeadDecryption"),
          steps |-> <<"from_phrase", "aead_decrypt">>]
    ELSE [out |-> KeyShard_from_wire(wire_shard.val),
          steps |-> <<"from_phrase", "aead_decrypt", "from_wire">>]))

\* EncryptedKeyShard::decrypt: the mnemonic, then the AEAD, then the decode.
\* steps lists the calls made, in order.
EncryptedKeyShard_decrypt(e, codewords) ==
    Bind(Mnemonic_from_phrase(to_lowercase(codewords)), LAMBDA mnemonic :
    IF ~mnemonic.ok
    THEN [out |-> Err("BadMnemonic"), steps |-> <<"from_phrase">>]
    ELSE IF Len(mnemonic.val) # CHACHAPOLY_KEY_LENGTH
    THEN [out |-> Err("panic"), steps |-> <<"from_phrase">>]
    ELSE Bind(aead_decrypt(mnemonic.val, e.nonce, <<>>, e.ciphertext),
              LAMBDA wire_shard :
    IF ~wire_shard.ok
    THEN [out |-> Err("AeadDecryption"),
          steps |-> <<"from_phrase", "aead_decrypt">>]
    ELSE [out |-> KeyShard_from_wire(wire_shard.val),
          steps |-> <<"from_phrase", "aead_decrypt", "from_wire">>]))

----------------------------------------------------------------------------
(* The shards, keys and nonces the encryption is exercised on. *)

\* quickcheck's KeyShard::arbitrary: a version-0 builder, signed
KeyShards ==
    {KeyShardBuilder_sign(
        [version |-> 0,
         doc_chksum |-> Multihash_digest([i \in 1..g |-> (37 * i) % 256]),
         shard |-> [x |-> 100 * g - 99, ys |-> [i \in 1..g |-> (g * 85 * i) % 256]]],
        Keypair(16 + g)) : g \in {1, 3}}

\* what rand::thread_rng() may put in shard_key and shard_nonce
ShardKeys ==
    {[i \in 1..CHACHAPOLY_KEY_LENGTH |-> (i * s + 2 * s) % 256] : s \in {0, 77}}

ShardNonces ==
    {[i \in 1..CHACHAPOLY_NONCE_LENGTH |-> (i * s + 9) % 256] : s \in {0, 130}}

\* by how much one changed byte differs from the original
TamperDeltas == {1, 128}

\* which of the 24 codewords is replaced or capitalised
CodewordPositions == {1, 12, CODEWORD_COUNT}

----------------------------------------------------------------------------
(* The shard encryption's state machine: encrypt a shard, let the paper    *)
(* copy or the codewords be altered, decrypt.                              *)

NoMain == [inner |-> "none"]

InitShard ==
    /\ shard \in KeyShards
    /\ enc = NoEnc
    /\ dec = NoDec
    /\ main = NoMain
    /\ wire = [kind |-> "none", bytes |-> <<>>, extra |-> <<>>, cut |-> FALSE]
    /\ result = NoResult
    /\ ids = NoIds
    /\ backup = NoBackup /\ paper = NoPaper
    /\ quorum = UntrustedQuorum_new /\ outcome = NoOutcome
    /\ signing = NoSigning

Encrypt ==
    /\ ~enc.made
    /\ \E shard_key \in ShardKeys, shard_nonce \in ShardNonces :
       \E e \in {KeyShard_encrypt(shard, shard_key, shard_nonce)} :
          enc' = [made |-> TRUE, shard |-> e.shard,
                  codewords |-> e.codewords,
                  original |-> e.shard, issued |-> e.codewords,
                  paper |-> "intact", words |-> "intact"]
    /\ UNCHANGED <<shard, dec, wireVars, backupVars, signVars>>

\* the bytes of the ciphertext that may be changed: any of them while the
\* codewords are as issued, the first and the last otherwise
TamperPositions ==
    IF enc.words = "intact" THEN 1..Len(enc.shard.ciphertext)
    ELSE {1, Len(enc.shard.ciphertext)}

\* one byte of the ciphertext (body or tag) is changed
TamperCiphertext ==
    /\ enc.made /\ enc.paper = "intact" /\ ~dec.done
    /\ \E i \in TamperPositions, d \in TamperDeltas :
          enc' = [enc EXCEPT !.shard.ciphertext[i] = (@ + d) % 256,
                             !.paper = "ciphertext"]
    /\ UNCHANGED <<shard, dec, wireVars, backupVars, signVars>>

\* one byte of the nonce is changed
TamperNonce ==
    /\ enc.made /\ enc.paper = "intact" /\ ~dec.done
    /\ \E i \in {1, CHACHAPOLY_NONCE_LENGTH}, d \in TamperDeltas :
          enc' = [enc EXCEPT !.shard.nonce[i] = (@ + d) % 256,
                             !.paper = "nonce"]
    /\ UNCHANGED <<shard, dec, wireVars, backupVars, signVars>>

\* one codeword is replaced, by a string outside the list or by another word
ReplaceCodeword ==
    /\ enc.made /\ enc.words = "intact" /\ enc.paper = "intact" /\ ~dec.done
    /\ \E i \in CodewordPositions :
          \/ enc' = [enc EXCEPT !.codewords[i].word = NOT_A_WORD,
                                !.words = "unknown"]
          \/ enc' = [enc EXCEPT !.codewords[i].word = (@ + 1) % WORDLIST_SIZE,
                                !.words = "other"]
    /\ UNCHANGED <<shard, dec, wireVars, backupVars, signVars>>

\* the codewords are typed with capitals: one of them, or all
CapitaliseCodewords ==
    /\ enc.made /\ enc.words = "intact" /\ enc.paper = "intact" /\ ~dec.done
    /\ \/ \E i \in CodewordPositions :
             enc' = [enc EXCEPT !.codewords[i].upper = TRUE, !.words = "case"]
       \/ enc' = [enc EXCEPT
                    !.codewords = [i \in 1..Len(@) |-> [@[i] EXCEPT !.upper = TRUE]],
                    !.words = "case"]
    /\ UNCHANGED <<shard, dec, wireVars, backupVars, signVars>>

Decrypt ==
    /\ enc.made /\ ~dec.done
    /\ \E r \in {EncryptedKeyShard_decrypt(enc.shard, enc.codewords)} :
          dec' = [done |-> TRUE, out |-> r.out, steps |-> r.steps]
    /\ UNCHANGED <<shard, enc, wireVars, backupVars, signVars>>

NextShard ==
    \/ Encrypt
    \/ TamperCiphertext \/ TamperNonce
    \/ ReplaceCodeword \/ CapitaliseCodewords
    \/ Decrypt

SpecShard == InitShard /\ [][NextShard]_vars

----------------------------------------------------------------------------
(* Properties of the shard encryption, checked under SpecShard. *)

\* the bytes at which two byte strings of one length differ
DiffPositions(a, b) == {i \in 1..Len(a) : a[i] # b[i]}

\* C3: a signed KeyShard, encrypted and then decrypted with the codewords
\* encrypt returned, comes back equal, whichever key and nonce were drawn.
C3_EncryptionRoundTrip ==
    (dec.done /\ enc.shard = enc.original /\ enc.codewords = enc.issued)
        => dec.out = Ok(shard, <<>>)

C3_Witness ==
    /\ dec.done
    /\ enc.shard = enc.original /\ enc.codewords = enc.issued
    /\ enc.shard.nonce \in ShardNonces
    /\ dec.out.ok /\ dec.out.val = shard
    /\ dec.out.val.identity = shard.identity

\* C6: with exactly one byte of the ciphertext (body or tag) changed and the
\* codewords as issued, decrypt fails with the AEAD's decryption error and
\* does not go on to decode a KeyShard.
C6_ShardTamperDetection ==
    (/\ dec.done
     /\ enc.codewords = enc.issued
     /\ enc.shard.nonce = enc.original.nonce
     /\ Len(enc.shard.ciphertext) = Len(enc.original.ciphertext)
     /\ Cardinality(DiffPositions(enc.shard.ciphertext,
                                  enc.original.ciphertext)) = 1)
        => /\ dec.out = Err("AeadDecryption")
           /\ dec.steps = <<"from_phrase", "aead_decrypt">>

\* a byte of the body was changed
C6_Witness ==
    /\ dec.done
    /\ enc.codewords = enc.issued
    /\ DiffPositions(enc.shard.ciphertext, enc.original.ciphertext) = {2}
    /\ ~dec.out.ok /\ dec.out.err = "AeadDecryption"

\* a byte of the tag was changed
C6_WitnessTag ==
    /\ dec.done
    /\ enc.codewords = enc.issued
    /\ DiffPositions(enc.shard.ciphertext, enc.original.ciphertext)
         = {Len(enc.original.ciphertext)}
    /\ ~dec.out.ok /\ dec.out.err = "AeadDecryption"

\* C7: when the lowercased codewords are not a valid phrase, decrypt fails
\* with the mnemonic's error after that one step, whatever the nonce and
\* the ciphertext; and codewords written with capitals decrypt to what
\* their lowercase form decrypts to.
C7_MnemonicFirst ==
    dec.done =>
        /\ ~Mnemonic_from_phrase(to_lowercase(enc.codewords)).ok
             => /\ dec.out = Err("BadMnemonic")
                /\ dec.steps = <<"from_phrase">>
        /\ (\E i \in 1..CODEWORD_COUNT : enc.codewords[i].word = NOT_A_WORD)
             => dec.out = Err("BadMnemonic")
        /\ to_lowercase(enc.codewords) = enc.issued
             => dec.out = EncryptedKeyShard_decrypt(enc.shard, enc.issued).out

\* an unknown word, and a changed ciphertext as well
C7_Witness ==
    /\ dec.done
    /\ enc.words = "unknown" /\ enc.paper = "ciphertext"
    /\ ~dec.out.ok /\ dec.out.err = "BadMnemonic"

\* a word of the list in place of another: the checksum no longer matches
C7_WitnessChecksum ==
    /\ dec.done
    /\ enc.words = "other"
    /\ Mnemonic_from_phrase(enc.codewords) = Err("InvalidChecksum")
    /\ ~dec.out.ok /\ dec.out.err = "BadMnemonic"

\* the issued codewords in capitals decrypt the shard
C7_WitnessCase ==
    /\ dec.done
    /\ enc.words = "case" /\ enc.paper = "intact"
    /\ \A i \in 1..CODEWORD_COUNT : enc.codewords[i].upper
    /\ dec.out.ok /\ dec.out.val = shard

----------------------------------------------------------------------------
(* Shamir's scheme, byte by byte over GF(2^8): the dealer holds one        *)
(* polynomial of degree k - 1 per byte of the secret, with the byte as its *)
(* constant term; shard number x carries each polynomial's value at x.     *)

\* the powers of the generator 3 modulo x^8 + x^4 + x^3 + x + 1: the entry
\* at i + 1 is 3^i, for i in 0..254
GF_EXP ==
    <<
      1, 3, 5, 15, 17, 51, 85, 255, 26, 46, 114, 150, 161, 248, 19,
      53, 95, 225, 56, 72, 216, 115, 149, 164, 247, 2, 6, 10, 30, 34,
      102, 170, 229, 52, 92, 228, 55, 89, 235, 38, 106, 190, 217, 112, 144,
      171, 230, 49, 83, 245, 4, 12, 20, 60, 68, 204, 79, 209, 104, 184,
      211, 110, 178, 205, 76, 212, 103, 169, 224, 59, 77, 215, 98, 166, 241,
      8, 24, 40, 120, 136, 131, 158, 185, 208, 107, 189, 220, 127, 129, 152,
      179, 206, 73, 219, 118, 154, 181, 196, 87, 249, 16, 48, 80, 240, 11,
      29, 39, 105, 187, 214, 97, 163, 254, 25, 43, 125, 135, 146, 173, 236,
      47, 113, 147, 174, 233, 32, 96, 160, 251, 22, 58, 78, 210, 109, 183,
      194, 93, 231, 50, 86, 250, 21, 63, 65, 195, 94, 226, 61, 71, 201,
      64, 192, 91, 237, 44, 116, 156, 191, 218, 117, 159, 186, 213, 100, 172,
      239, 42, 126, 130, 157, 188, 223, 122, 142, 137, 128, 155, 182, 193, 88,
      232, 35, 101, 175, 234, 37, 111, 177, 200, 67, 197, 84, 252, 31, 33,
      99, 165, 244, 7, 9, 27, 45, 119, 153, 176, 203, 70, 202, 69, 207,
      74, 222, 121, 139, 134, 145, 168, 227, 62, 66, 198, 81, 243, 14, 18,
      54, 90, 238, 41, 123, 141, 140, 143, 138, 133, 148, 167, 242, 13, 23,
      57, 75, 221, 124, 132, 151, 162, 253, 28, 36, 108, 180, 199, 82, 246
    >>

\* the logarithms to the base 3: the entry at a is i with 3^i = a
GF_LOG ==
    <<
      0, 25, 1, 50, 2, 26, 198, 75, 199, 27, 104, 51, 238, 223, 3,
      100, 4, 224, 14, 52, 141, 129, 239, 76, 113, 8, 200, 248, 105, 28,
      193, 125, 194, 29, 181, 249, 185, 39, 106, 77, 228, 166, 114, 154, 201,
      9, 120, 101, 47, 138, 5, 33, 15, 225, 36, 18, 240, 130, 69, 53,
      147, 218, 142, 150, 143, 219, 189, 54, 208, 206, 148, 19, 92, 210, 241,
      64, 70, 131, 56, 102, 221, 253, 48, 191, 6, 139, 98, 179, 37, 226,
      152, 34, 136, 145, 16, 126, 110, 72, 195, 163, 182, 30, 66, 58, 107,
      40, 84, 250, 133, 61, 186, 43, 121, 10, 21, 155, 159, 94, 202, 78,
      212, 172, 229, 243, 115, 167, 87, 175, 88, 168, 80, 244, 234, 214, 116,
      79, 174, 233, 213, 231, 230, 173, 232, 44, 215, 117, 122, 235, 22, 11,
      245, 89, 203, 95, 176, 156, 169, 81, 160, 127, 12, 246, 111, 23, 196,
      73, 236, 216, 67, 31, 45, 164, 118, 123, 183, 204, 187, 62, 90, 251,
      96, 177, 134, 59, 82, 161, 108, 170, 85, 41, 157, 151, 178, 135, 144,
      97, 190, 220, 252, 188, 149, 207, 205, 55, 63, 91, 209, 83, 57, 132,
      60, 65, 162, 109, 71, 20, 42, 158, 93, 86, 242, 211, 171, 68, 17,
      146, 217, 35, 32, 46, 137, 180, 124, 184, 38, 119, 153, 227, 165, 103,
      74, 237, 222, 197, 49, 254, 24, 13, 99, 140, 128, 192, 247, 112, 7
    >>

gf_mul(a, b) ==
    IF a = 0 \/ b = 0 THEN 0
    ELSE GF_EXP[((GF_LOG[a] + GF_LOG[b]) % 255) + 1]

\* a / b, for b # 0
gf_div(a, b) ==
    IF a = 0 THEN 0
    ELSE GF_EXP[((GF_LOG[a] + 255 - GF_LOG[b]) % 255) + 1]

\* Dealer::new(k, secret): the coefficients above the constant term are
\* what the random generator gave, here a function of the seed
Dealer_new(k, secret, seed) ==
    [threshold |-> k,
     polys |-> [p \in 1..Len(secret) |->
                  [j \in 0..(k - 1) |->
                     IF j = 0 THEN secret[p]
                     ELSE (seed * (p + 7 * j) + 29 * j + p) % 256]],
     next_x |-> 1]

\* the polynomial's value at x, by Horner's rule from coefficient j down
RECURSIVE Dealer_eval(_, _, _, _)
Dealer_eval(poly, j, x, acc) ==
    IF j < 0 THEN acc
    ELSE Dealer_eval(poly, j - 1, x, Xor(gf_mul(acc, x), poly[j]))

\* Dealer::next_shard(): the shard at the next x, and the dealer after it
Dealer_next_shard(d) ==
    [shard |-> [x |-> d.next_x,
                ys |-> [p \in 1..Len(d.polys) |->
                          Dealer_eval(d.polys[p], d.threshold - 1,
                                      d.next_x, 0)]],
     dealer |-> [d EXCEPT !.next_x = @ + 1]]

Shard_id(sh) == sh.x

KeyShard_id(ks) == Shard_id(ks.inner.shard)

\* the i-th Lagrange basis polynomial's value at 0, for the points xs
RECURSIVE lagrange_basis(_, _, _)
lagrange_basis(xs, i, j) ==
    IF j > Len(xs) THEN 1
    ELSE IF j = i THEN lagrange_basis(xs, i, j + 1)
    ELSE gf_mul(gf_div(xs[j], Xor(xs[j], xs[i])),
                lagrange_basis(xs, i, j + 1))

RECURSIVE lagrange_sum(_, _, _, _)
lagrange_sum(shards, basis, p, i) ==
    IF i > Len(shards) THEN 0
    ELSE Xor(gf_mul(shards[i].ys[p], basis[i]),
             lagrange_sum(shards, basis, p, i + 1))

\* combine(shards): the polynomials through the shards, taken at 0
shamir_combine(shards) ==
    LET n == Len(shards)
    IN  Bind([i \in 1..n |-> shards[i].x], LAMBDA xs :
        IF n = 0 THEN Err("ShamirError")
        ELSE IF \E i, j \in 1..n : i # j /\ xs[i] = xs[j]
        THEN Err("ShamirError")
        ELSE IF \E i \in 1..n : Len(shards[i].ys) # Len(shards[1].ys)
        THEN Err("ShamirError")
        ELSE Bind([i \in 1..n |-> lagrange_basis(xs, i, 1)], LAMBDA basis :
             Ok([p \in 1..Len(shards[1].ys) |->
                    lagrange_sum(shards, basis, p, 1)], <<>>)))

----------------------------------------------------------------------------
(* The backup pipeline. *)

\* ShardSecret on the wire: the document key, then a tag telling whether
\* the identity's private key follows, then that key
ShardSecret_to_wire(s) ==
    s.doc_key \o (IF s.id_private_key.some
                  THEN <<1>> \o s.id_private_key.val
                  ELSE <<0>>)

ShardSecret_from_wire(bytes) ==
    IF Len(bytes) < CHACHAPOLY_KEY_LENGTH + 1 THEN Err("ShardSecretDecode")
    ELSE LET doc_key == Take(bytes, CHACHAPOLY_KEY_LENGTH)
             tag == bytes[CHACHAPOLY_KEY_LENGTH + 1]
             rest == Drop(bytes, CHACHAPOLY_KEY_LENGTH + 1)
         IN  IF tag = 0 /\ rest = <<>>
             THEN Ok([doc_key |-> doc_key, id_private_key |-> None], <<>>)
             ELSE IF tag = 1 /\ Len(rest) = 32
             THEN Ok([doc_key |-> doc_key, id_private_key |-> Some(rest)],
                     <<>>)
             ELSE Err("ShardSecretDecode")

\* MainDocumentMeta::aad: the meta's wire form, b'k', the public key
MainDocumentMeta_aad(meta, id_public_key) ==
    MainDocumentMeta_to_wire(meta) \o <<107>> \o id_public_key

\* Backup::new(quorum_size, secret), with what the random generator gave
\* for the document key, the nonce, the keypair and the dealer
Backup_new(quorum_size, secret, doc_key, doc_nonce, id_keypair, seed) ==
    LET meta == [version |-> 0, quorum_size |-> quorum_size]
        aad == MainDocumentMeta_aad(meta, id_keypair.public)
        ciphertext == aead_encrypt(doc_key, doc_nonce, aad, secret)
        builder == [meta |-> meta, nonce |-> doc_nonce,
                    ciphertext |-> ciphertext]
        shard_secret == [doc_key |-> doc_key,
                         id_private_key |-> Some(id_keypair.secret)]
    IN  [made |-> TRUE,
         main_document |-> MainDocumentBuilder_sign(builder, id_keypair),
         dealer |-> Dealer_new(quorum_size,
                               ShardSecret_to_wire(shard_secret), seed),
         id_keypair |-> id_keypair]

Backup_main_document(b) == b.main_document

\* Backup::next_shard(): the next share in a signed KeyShard, and the
\* backup after it
Backup_next_shard(b) ==
    Bind(Dealer_next_shard(b.dealer), LAMBDA n :
    LET builder == [version |-> 0,
                    doc_chksum |-> MainDocument_checksum(b.main_document),
                    shard |-> n.shard]
    IN  [shard |-> KeyShardBuilder_sign(builder, b.id_keypair),
         backup |-> [b EXCEPT !.dealer = n.dealer]])

\* EncryptedKeyShard on the wire: tag, nonce, tag, length, ciphertext
EncryptedKeyShard_to_wire(e) ==
    varuint_encode(PREFIX_CHACHA20POLY1305_NONCE) \o e.nonce
        \o varuint_encode(PREFIX_CHACHA20POLY1305_CIPHERTEXT)
        \o varuint_encode(Len(e.ciphertext)) \o e.ciphertext

EncryptedKeyShard_from_wire_partial(input) ==
    Bind(MainDocumentBuilder_parse(input), LAMBDA p :
    IF ~p.ok THEN Err("DecodeError") ELSE p)

EncryptedKeyShard_from_wire(input) ==
    from_wire(EncryptedKeyShard_from_wire_partial(input))

----------------------------------------------------------------------------
(* Quorum recovery. *)

MainDocument_verify(m) ==
    PublicKey_verify(m.identity.id_public_key,
                     MainDocumentBuilder_signable_bytes(
                         m.inner, m.identity.id_public_key),
                     m.identity.id_signature)

KeyShard_verify(ks) ==
    PublicKey_verify(ks.identity.id_public_key,
                     KeyShardBuilder_signable_bytes(
                         ks.inner, ks.identity.id_public_key),
                     ks.identity.id_signature)

UntrustedQuorum_main_document(q, m) == [q EXCEPT !.main_document = Some(m)]

\* push_shard: the shards are a collection without repetition, kept in the
\* order of arrival
UntrustedQuorum_push_shard(q, s) ==
    IF \E i \in 1..Len(q.shards) : q.shards[i] = s THEN q
    ELSE [q EXCEPT !.shards = Append(@, s)]

\* validate(): the seven rules in order, the first that fails decides
UntrustedQuorum_validate(q) ==
    IF ~q.main_document.some THEN Err("MissingMainDocument")
    ELSE Bind(q.main_document.val, LAMBDA m :
         Bind(MainDocument_checksum(m), LAMBDA doc_chksum :
         LET n == Len(q.shards)
         IN  IF ~MainDocument_verify(m) THEN Err("InvalidSignature")
             ELSE IF \E i \in 1..n : ~KeyShard_verify(q.shards[i])
             THEN Err("InvalidSignature")
             ELSE IF \E i \in 1..n : q.shards[i].identity.id_public_key
                                        # m.identity.id_public_key
             THEN Err("GroupingMismatch")
             ELSE IF \E i \in 1..n : q.shards[i].inner.doc_chksum # doc_chksum
             THEN Err("GroupingMismatch")
             ELSE IF \E i, j \in 1..n :
                        i # j /\ KeyShard_id(q.shards[i]) = KeyShard_id(q.shards[j])
             THEN Err("DuplicateShardId")
             ELSE IF n < MainDocument_quorum_size(m)
             THEN Err("InsufficientQuorum")
             ELSE Ok([main_document |-> m, shards |-> q.shards], <<>>)))

\* Quorum::recover_document(): combine the first k shards, split the shard
\* secret, decrypt the main document's ciphertext
Quorum_recover_document(qu) ==
    LET m == qu.main_document
        k == MainDocument_quorum_size(m)
    IN  Bind(shamir_combine([i \in 1..k |-> qu.shards[i].inner.shard]),
             LAMBDA combined :
        IF ~combined.ok THEN combined
        ELSE Bind(ShardSecret_from_wire(combined.val), LAMBDA secret :
        IF ~secret.ok THEN secret
        ELSE aead_decrypt(secret.val.doc_key, m.inner.nonce,
                          MainDocumentMeta_aad(m.inner.meta,
                                               m.identity.id_public_key),
                          m.inner.ciphertext)))

----------------------------------------------------------------------------
(* The backup's state machine: a backup is made, its main document and its *)
(* shards are printed, and a quorum is assembled from the paper, validated *)
(* and used to recover the secret.                                         *)

\* the largest quorum size, the most shards issued, the longest secret
MaxQuorum == 3

MaxShards == 3

MaxSecretLen == 1

SecretBytes == {0, 255}

Secrets == SeqsUpTo(SecretBytes, MaxSecretLen)

\* the random generator: what its draw number n gives for len bytes, for a
\* generator seeded with seed
RngSeeds == {5, 200}

rng_fill_bytes(seed, n, len) ==
    [i \in 1..len |-> (seed * (i + n) + 31 * n + i) % 256]

InitBackup ==
    /\ backup = NoBackup /\ paper = NoPaper
    /\ quorum = UntrustedQuorum_new /\ outcome = NoOutcome
    /\ signing = NoSigning
    /\ main = NoMain
    /\ wire = [kind |-> "none", bytes |-> <<>>, extra |-> <<>>, cut |-> FALSE]
    /\ result = NoResult
    /\ ids = NoIds
    /\ shard = NoShard /\ enc = NoEnc /\ dec = NoDec

QuorumUntouched ==
    quorum = UntrustedQuorum_new /\ outcome = NoOutcome

\* Backup::new draws the document key, the nonce, the keypair and the
\* dealer's coefficients, in this order
BackupNew ==
    /\ ~backup.made
    /\ \E quorum_size \in 2..MaxQuorum, secret \in Secrets, seed \in RngSeeds :
          LET doc_key == rng_fill_bytes(seed, 0, CHACHAPOLY_KEY_LENGTH)
              doc_nonce == rng_fill_bytes(seed, 1, CHACHAPOLY_NONCE_LENGTH)
              id_keypair == Keypair((seed + 2) % 256)
          IN  backup' = [made |-> TRUE, quorum_size |-> quorum_size,
                         secret |-> secret, seed |-> seed, draws |-> 4,
                         inner |-> Backup_new(quorum_size, secret, doc_key,
                                              doc_nonce, id_keypair, seed + 3)]
    /\ UNCHANGED <<paper, quorum, outcome, wireVars, shardVars, signVars>>

\* backup.main_document().to_wire()
PrintMainDocument ==
    /\ backup.made /\ paper.main = <<>> /\ paper.shards = <<>>
    /\ QuorumUntouched
    /\ paper' = [paper EXCEPT
                   !.main = MainDocument_to_wire(Backup_main_document(backup.inner))]
    /\ UNCHANGED <<backup, quorum, outcome, wireVars, shardVars, signVars>>

\* backup.next_shard(), encrypt() with its two draws and to_wire(); the
\* backup issues its shards before it is discarded and any quorum is
\* assembled
PrintShard ==
    /\ backup.made /\ Len(paper.shards) < MaxShards /\ QuorumUntouched
    /\ \E n \in {Backup_next_shard(backup.inner)} :
       \E e \in {KeyShard_encrypt(
                    n.shard,
                    rng_fill_bytes(backup.seed, backup.draws,
                                   CHACHAPOLY_KEY_LENGTH),
                    rng_fill_bytes(backup.seed, backup.draws + 1,
                                   CHACHAPOLY_NONCE_LENGTH))} :
          /\ backup' = [backup EXCEPT !.inner = n.backup, !.draws = @ + 2]
          /\ paper' = [paper EXCEPT !.shards =
                         Append(@, [wire |-> EncryptedKeyShard_to_wire(e.shard),
                                    codewords |-> e.codewords])]
    /\ UNCHANGED <<quorum, outcome, wireVars, shardVars, signVars>>

\* MainDocument::from_wire(bytes).unwrap(), quorum.main_document(..)
QuorumMainDocument ==
    /\ paper.main # <<>> /\ ~outcome.validated.done
    /\ ~quorum.main_document.some
    /\ \E m \in {MainDocument_from_wire(paper.main)} :
          IF m.ok
          THEN /\ quorum' = UntrustedQuorum_main_document(quorum, m.val)
               /\ outcome' = [outcome EXCEPT !.started = TRUE]
          ELSE /\ outcome' = [outcome EXCEPT !.started = TRUE,
                                !.failed = @ \cup {"MainDocument::from_wire"}]
               /\ UNCHANGED quorum
    /\ UNCHANGED <<backup, paper, wireVars, shardVars, signVars>>

\* EncryptedKeyShard::from_wire(bytes).unwrap(), decrypt(codewords).unwrap(),
\* quorum.push_shard(..)
QuorumPushShard ==
    /\ ~outcome.validated.done
    /\ \E i \in 1..Len(paper.shards) :
       \E e \in {EncryptedKeyShard_from_wire(paper.shards[i].wire)} :
          IF ~e.ok
          THEN /\ outcome' = [outcome EXCEPT !.started = TRUE, !.failed =
                                @ \cup {"EncryptedKeyShard::from_wire"}]
               /\ UNCHANGED quorum
          ELSE \E d \in {EncryptedKeyShard_decrypt(
                              e.val, paper.shards[i].codewords).out} :
                  IF ~d.ok
                  THEN /\ outcome' = [outcome EXCEPT !.started = TRUE,
                                        !.failed = @ \cup {"EncryptedKeyShard::decrypt"}]
                       /\ UNCHANGED quorum
                  ELSE /\ quorum' = UntrustedQuorum_push_shard(quorum, d.val)
                       /\ outcome' = [outcome EXCEPT !.started = TRUE,
                                        !.pushed = @ \cup {i}]
    /\ UNCHANGED <<backup, paper, wireVars, shardVars, signVars>>

\* quorum.validate(), which consumes the UntrustedQuorum
Validate ==
    /\ backup.made /\ ~outcome.validated.done
    /\ outcome' = [outcome EXCEPT !.started = TRUE,
                     !.validated = [done |-> TRUE,
                                    out |-> UntrustedQuorum_validate(quorum)]]
    /\ UNCHANGED <<backup, paper, quorum, wireVars, shardVars, signVars>>

\* quorum.recover_document(), on the Quorum validate() returned
RecoverDocument ==
    /\ outcome.validated.done /\ outcome.validated.out.ok
    /\ ~outcome.recovered.done
    /\ outcome' = [outcome EXCEPT !.recovered =
                     [done |-> TRUE,
                      out |-> Quorum_recover_document(outcome.validated.out.val)]]
    /\ UNCHANGED <<backup, paper, quorum, wireVars, shardVars, signVars>>

NextBackup ==
    \/ BackupNew
    \/ PrintMainDocument \/ PrintShard
    \/ QuorumMainDocument \/ QuorumPushShard
    \/ Validate \/ RecoverDocument

SpecBackup == InitBackup /\ [][NextBackup]_vars

----------------------------------------------------------------------------
(* Properties of backup and recovery, checked under SpecBackup. *)

C2_WitnessMoreShards ==
    /\ outcome.recovered.done
    /\ backup.quorum_size = 2 /\ Len(quorum.shards) = 3
    /\ outcome.recovered.out = Ok(backup.secret, <<>>)

----------------------------------------------------------------------------
(* Signing: a builder is signed with a keypair, the signed object is put   *)
(* on the wire and its signature is verified; a byte of the stored         *)
(* signature may be changed before that.                                   *)

MainDocumentBuilders == {d.inner : d \in MainDocuments}

KeyShardBuilders ==
    {[ks.inner EXCEPT !.version = v] : ks \in KeyShards, v \in Versions}

SignKeypairs == {Keypair(23), Keypair(140)}

InitSign ==
    /\ signing = NoSigning
    /\ backup = NoBackup /\ paper = NoPaper
    /\ quorum = UntrustedQuorum_new /\ outcome = NoOutcome
    /\ main = NoMain
    /\ wire = [kind |-> "none", bytes |-> <<>>, extra |-> <<>>, cut |-> FALSE]
    /\ result = NoResult
    /\ ids = NoIds
    /\ shard = NoShard /\ enc = NoEnc /\ dec = NoDec

Signed(kind, b, id_keypair, signed) ==
    [kind |-> kind, builder |-> b, keypair |-> id_keypair, signed |-> signed,
     altered |-> FALSE, wire |-> None, verified |-> None]

\* MainDocumentBuilder::sign
SignMainDocument ==
    /\ signing.kind = "none"
    /\ \E b \in MainDocumentBuilders, id_keypair \in SignKeypairs :
       \E signed \in {MainDocumentBuilder_sign(b, id_keypair)} :
          signing' = Signed("main", b, id_keypair, signed)
    /\ UNCHANGED <<wireVars, shardVars, backupVars>>

\* KeyShardBuilder::sign
SignKeyShard ==
    /\ signing.kind = "none"
    /\ \E b \in KeyShardBuilders, id_keypair \in SignKeypairs :
       \E signed \in {KeyShardBuilder_sign(b, id_keypair)} :
          signing' = Signed("shard", b, id_keypair, signed)
    /\ UNCHANGED <<wireVars, shardVars, backupVars>>

\* one byte of the stored signature is changed
AlterSignature ==
    /\ signing.kind # "none" /\ ~signing.altered
    /\ ~signing.wire.some /\ ~signing.verified.some
    /\ \E i \in {1, SIGNATURE_LENGTH}, d \in TamperDeltas :
          signing' = [signing EXCEPT
                        !.signed.identity.id_signature[i] = (@ + d) % 256,
                        !.altered = TRUE]
    /\ UNCHANGED <<wireVars, shardVars, backupVars>>

\* to_wire() of the signed object
SignedToWire ==
    /\ signing.kind # "none" /\ ~signing.wire.some
    /\ signing' = [signing EXCEPT !.wire =
                      Some(IF signing.kind = "main"
                           THEN MainDocument_to_wire(signing.signed)
                           ELSE KeyShard_to_wire(signing.signed))]
    /\ UNCHANGED <<wireVars, shardVars, backupVars>>

\* verify() of the signed object
VerifySigned ==
    /\ signing.kind # "none" /\ ~signing.verified.some
    /\ signing' = [signing EXCEPT !.verified =
                      Some(IF signing.kind = "main"
                           THEN MainDocument_verify(signing.signed)
                           ELSE KeyShard_verify(signing.signed))]
    /\ UNCHANGED <<wireVars, shardVars, backupVars>>

NextSign ==
    \/ SignMainDocument \/ SignKeyShard
    \/ AlterSignature
    \/ SignedToWire \/ VerifySigned

SpecSign == InitSign /\ [][NextSign]_vars

----------------------------------------------------------------------------
(* Properties of signing, checked under SpecSign. *)

\* C11: sign leaves the builder as it was, stores the keypair's public key,
\* and signs exactly the builder's wire form, the varint of the Ed25519
\* public key tag and the public key's bytes; the signed object's wire form
\* is the builder's followed by the identity's, and the stored signature
\* verifies over the signable bytes recomputed from the signed object.
C11_SigningRecipe ==
    (signing.kind # "none" /\ ~signing.altered) =>
        LET b == signing.builder
            kp == signing.keypair
            s == signing.signed
            builder_wire == IF signing.kind = "main"
                            THEN MainDocumentBuilder_to_wire(b)
                            ELSE KeyShardBuilder_to_wire(b)
            signed_over == builder_wire \o varuint_encode(PREFIX_ED25519_PUB)
                              \o kp.public
        IN  /\ s.inner = b
            /\ s.identity.id_public_key = kp.public
            /\ s.identity.id_signature = Keypair_sign(kp, signed_over)
            /\ signing.wire.some
                 => signing.wire.val = builder_wire \o Identity_to_wire(s.identity)
            /\ signing.verified.some => signing.verified.val

\* a signed main document, on the wire and verified
C11_Witness ==
    /\ signing.kind = "main" /\ ~signing.altered
    /\ Len(signing.builder.ciphertext) = MaxCtLen
    /\ signing.signed.inner = signing.builder
    /\ signing.wire.some
    /\ signing.verified.some /\ signing.verified.val

\* a signed key shard, on the wire and verified
C11_WitnessKeyShard ==
    /\ signing.kind = "shard" /\ ~signing.altered
    /\ signing.signed.identity.id_public_key = signing.keypair.public
    /\ signing.wire.some
    /\ signing.verified.some /\ signing.verified.val

\* a changed signature does not verify
C11_WitnessAltered ==
    /\ signing.kind = "main" /\ signing.altered
    /\ signing.verified.some /\ ~signing.verified.val

============================================================================
